---------------------------- MODULE Spec2Model ----------------------------
(***************************************************************************)
(* A model of vnpy_huobi/huobi_inverse_gateway.py: the REST trading client *)
(* (order-id generation, order placement and its callbacks, cancellation,  *)
(* the query callbacks) and the market-data WebSocket client.              *)
(*                                                                         *)
(* Python integers are unbounded and the local order id is a 17-digit      *)
(* decimal string, so strings of digits and large integers are sequences   *)
(* of decimal digits; an integer is such a sequence without leading zeros. *)
(***************************************************************************)
EXTENDS Integers, Sequences, FiniteSets, Bags, TLC

VARIABLES
    \* HuobiInverseRestApi: order-id generation
    order_count,        \* self.order_count
    connect_time,       \* self.connect_time (an integer: digits, no leading zero)
    order_count_lock,   \* the threads inside "with self.order_count_lock"
    thr,                \* per caller thread: position in new_local_orderid and its locals
    idLog,              \* ids returned so far, in order of return
    acquired,           \* number of lock acquisitions so far
    connects,           \* the epochs set by the connect() calls so far
    \* HuobiInverseRestApi: order placement
    orders,             \* the OrderData objects created so far (mutable, shared by reference)
    requests,           \* the requests handed to add_request
    emits,              \* per order: the statuses it had at each gateway.on_order call
    sending,            \* the order of a send_order call that is between add_request and on_order
    logs,               \* number of gateway.write_log / on_error reports of the last handler
    \* HuobiInverseRestApi: cancellation
    cancels,            \* the cancel requests handed to add_request
    \* HuobiInverseRestApi: query callbacks
    positions,          \* self.positions
    contract_codes,     \* self.contract_codes
    order_codes,        \* self.order_codes (set by the first contract response, read only after it)
    inflight,           \* the query requests handed to add_request and not yet answered (a bag)
    call,               \* the last query callback run and the status of its response
    out,                \* what the last query callback handed to the gateway (a bag)
    posEver,            \* every key that was ever in self.positions
    \* HuobiInverseDataWebsocketApi
    ticks,              \* self.ticks
    subscribed,         \* self.subscribed: the symbols recorded, in the order recorded
    tickOut,            \* the copies handed to gateway.on_tick by the last handler
    fed,                \* per symbol: which streams updated the current tick object
    sent,               \* the frames handed to send_packet by the last handler
    pushed,             \* the last handler run on the market channel: which one, the symbol
                        \* of its request or frame, and the keys of the frame's tick
    fresh,              \* per symbol: the streams a frame of which was applied since the
                        \* symbol was last subscribed and the channel last connected
    \* HuobiInverseTradeWebsocketApi
    trade_log,          \* the trade channel so far: connects, frames sent, auth packets received
    packet,             \* the packet the last handler was given (none for on_connected)
    tradeOut,           \* what the last on_packet handed to gateway.on_order / on_trade, in order
    tradeids,           \* the tradeid of every on_trade call so far (a bag)
    handled,            \* number of connects and packets so far
    ran,                \* the last handler of the trade channel: the branch on_packet took,
                        \* the texts it handed to gateway.write_log, the frames it sent
    \* query_history: the locals of one call
    history,            \* history: the bars so far, as one run of bars per page
    start,              \* start: a time in units of the bar interval
    resps,              \* the responses self.request has returned to the call, in order
    hpc,                \* where the call is: not made yet ("idle"), in its loop, or returned
    \* create_signature
    calls,              \* the calls of create_signature so far: arguments, clock, the list
                        \* encoded, the mapping returned, get_params as the call left it
    \* HuobiInverseGateway: the timer
    count,              \* self.count
    polled,             \* per timer event since the last connect: the queries it issued
    \* HuobiInverseTradeWebsocketApi.on_order for the orders send_order made
    pushLog             \* the order updates it handed to gateway.on_order, oldest first

idVars == <<order_count, connect_time, order_count_lock, thr, idLog, acquired, connects>>
orderVars == <<orders, requests, emits, sending, logs>>
cancelVars == <<cancels>>
queryVars == <<positions, contract_codes, order_codes, call, out, posEver>>
tickVars == <<ticks, subscribed, tickOut, fed, sent, pushed>>
tradeVars == <<trade_log, packet, tradeOut, tradeids, handled, ran>>
historyVars == <<history, start, resps, hpc>>
timerVars == <<count, polled>>
channelVars == <<tickVars, fresh, tradeVars, historyVars, calls, timerVars, pushLog>>
vars == <<idVars, orderVars, cancelVars, inflight, queryVars, channelVars>>

--------------------------------------------------------------------------
(* Bounds of the model *)

NumThreads == 2
MaxIds == 3
MaxConnects == 2
MaxOrders == 3
MaxErrors == 2
MaxCancels == 3
MaxBook == 1
MaxPackets == 4
MaxTrades == 2
MaxPages == 4
MaxCalls == 2
MaxTicks == 6
MaxPushes == 2

--------------------------------------------------------------------------
(* Decimal strings and integers *)

\* str(n) / f"{n}" of a non-negative machine-sized integer
RECURSIVE Digits(_)
Digits(n) == IF n < 10 THEN <<n>> ELSE Append(Digits(n \div 10), n % 10)

\* int(s) of a string of decimal digits: leading zeros do not count
RECURSIVE IntParse(_)
IntParse(s) == IF Len(s) > 1 /\ Head(s) = 0 THEN IntParse(Tail(s)) ELSE s

\* the value of a short digit string as a number
RECURSIVE NumOf(_)
NumOf(s) == IF s = <<>> THEN 0 ELSE 10 * NumOf(SubSeq(s, 1, Len(s) - 1)) + s[Len(s)]

\* a > b for integers given by their digits
RECURSIVE LexGt(_, _)
LexGt(a, b) ==
    IF a = <<>> THEN FALSE
    ELSE IF Head(a) # Head(b) THEN Head(a) > Head(b)
    ELSE LexGt(Tail(a), Tail(b))

IntGt(a, b) ==
    IF Len(a) # Len(b) THEN Len(a) > Len(b) ELSE LexGt(a, b)

\* datetime.now(CHINA_TZ).strftime("%y%m%d%H%M%S"): twelve digits, here a few
\* instants of the years 2010-2099 (the first digit is not 0)
Clock == { <<2,6,1,1,0,5,2,0,1,9,0,0>>, <<2,6,1,1,0,5,2,0,1,9,0,1>> }

--------------------------------------------------------------------------
(* HuobiInverseRestApi.__init__, connect, new_local_orderid *)

Threads == 1..NumThreads

INITIAL_ORDER_COUNT == 10000

IdleThread == [pc |-> "idle", tmp |-> 0, id |-> <<>>, acq |-> 0, conn |-> 0]

InitId ==
    /\ order_count = INITIAL_ORDER_COUNT
    /\ connect_time = <<0>>
    /\ order_count_lock = {}
    /\ thr = [t \in Threads |-> IdleThread]
    /\ idLog = <<>>
    /\ acquired = 0
    /\ connects = <<>>

\* add_request for a query: path and extra of the request
Query(path, extra) == SetToBag({[path |-> path, extra |-> extra]})

\* query_contract()
QueryContract == Query("swap_contract_info", "")

\* connect(): sets the epoch from the clock, starts the client and queries the
\* contracts; the counter is not touched
ConnectResetsCount ==
    /\ Len(connects) < MaxConnects
    /\ \E now \in Clock :
          /\ connect_time' = IntParse(now)
          /\ connects' = Append(connects, IntParse(now))
    /\ inflight' = inflight (+) QueryContract
    /\ order_count' = INITIAL_ORDER_COUNT
    /\ UNCHANGED <<order_count_lock, thr, idLog, acquired>>

Connect ==
    /\ Len(connects) < MaxConnects
    /\ \E now \in Clock :
          /\ connect_time' = IntParse(now)
          /\ connects' = Append(connects, IntParse(now))
    /\ inflight' = inflight (+) QueryContract
    /\ UNCHANGED <<order_count, order_count_lock, thr, idLog, acquired>>

\* with self.order_count_lock: the lock is taken only when nobody holds it
LockAlwaysFree == TRUE

LockFree == order_count_lock = {}

NloAcquire(t) ==
    /\ thr[t].pc = "idle"
    /\ Len(idLog) + Cardinality({u \in Threads : thr[u].pc # "idle"}) < MaxIds
    /\ LockFree
    /\ order_count_lock' = order_count_lock \cup {t}
    /\ acquired' = acquired + 1
    /\ thr' = [thr EXCEPT ![t] = [pc |-> "locked", tmp |-> 0, id |-> <<>>,
                                  acq |-> acquired + 1, conn |-> Len(connects)]]
    /\ UNCHANGED <<order_count, connect_time, idLog, connects>>

\* self.order_count += 1 is a load ...
NloLoad(t) ==
    /\ thr[t].pc = "locked"
    /\ thr' = [thr EXCEPT ![t].pc = "loaded", ![t].tmp = order_count]
    /\ UNCHANGED <<order_count, connect_time, order_count_lock, idLog, acquired, connects>>

\* ... and a store
NloStore(t) ==
    /\ thr[t].pc = "loaded"
    /\ order_count' = thr[t].tmp + 1
    /\ thr' = [thr EXCEPT ![t].pc = "stored"]
    /\ UNCHANGED <<connect_time, order_count_lock, idLog, acquired, connects>>

\* local_orderid = f"{self.connect_time}{self.order_count}"
LocalOrderid(epoch, n) == epoch \o Digits(n)

NloFormat(t) ==
    /\ thr[t].pc = "stored"
    /\ thr' = [thr EXCEPT ![t].pc = "formatted",
                          ![t].id = LocalOrderid(connect_time, order_count)]
    /\ UNCHANGED <<order_count, connect_time, order_count_lock, idLog, acquired, connects>>

\* return local_orderid: leaving the with block releases the lock
NloReturn(t) ==
    /\ thr[t].pc = "formatted"
    /\ order_count_lock' = order_count_lock \ {t}
    /\ idLog' = Append(idLog, [id |-> thr[t].id, acq |-> thr[t].acq, by |-> t,
                               from |-> thr[t].conn, to |-> Len(connects)])
    /\ thr' = [thr EXCEPT ![t] = IdleThread]
    /\ UNCHANGED <<order_count, connect_time, acquired, connects>>

--------------------------------------------------------------------------
(* HuobiInverseRestApi.send_order, send_orders and their callbacks.        *)
(* An order is an OrderData object, named by its index in orders: the      *)
(* request's extra and the caller hold the same object. add_request hands  *)
(* the request to the REST client's worker threads, which run one of       *)
(* callback (2xx), on_failed (other status) or on_error (exception) at any *)
(* later time.                                                             *)

InitOrder ==
    /\ orders = <<>>
    /\ requests = <<>>
    /\ emits = <<>>
    /\ sending = {}
    /\ logs = 0

Range(f) == {f[x] : x \in DOMAIN f}

Occurrences(seq, x) == Cardinality({k \in DOMAIN seq : seq[k] = x})

\* a response body: its status field and its "errors" list, which names each
\* failed request index once (an absent list and an empty one are both falsy:
\* both are <<>>)
ErrorLists(n) ==
    {e \in UNION {[1..k -> 0..(n - 1)] : k \in 0..MaxErrors} :
        \A x, y \in DOMAIN e : x # y => e[x] # e[y]}

Bodies(n) == [status : {"ok", "error"}, errors : ErrorLists(n)]

\* check_error: True exactly when the body's status is "error" (and then logs)
CheckError(data) == data.status = "error"

\* req.create_order_data(local_orderid, gateway_name): a new order, not yet acknowledged
CreateOrderData(local_orderid) == [orderid |-> local_orderid, status |-> "SUBMITTING"]

\* gateway.on_order(order): the caller sees the object as it is now
OnOrder(log, i, status) == [log EXCEPT ![i] = Append(@, status)]

Request(path, extra, ids) ==
    [path |-> path, extra |-> extra, client_order_id |-> ids,
     state |-> "queued", via |-> "", data |-> [status |-> "", errors |-> <<>>]]

Answered(r, via, data) ==
    [requests EXCEPT ![r].state = "done", ![r].via = via, ![r].data = data]

\* send_order up to and including add_request (lines 393-419)
SendOrderAddRequest ==
    /\ sending = {}
    /\ Len(orders) < MaxOrders
    /\ LET local_orderid == LocalOrderid(connect_time, order_count + 1)
           i == Len(orders) + 1
       IN /\ order_count' = order_count + 1
          /\ orders' = Append(orders, CreateOrderData(local_orderid))
          /\ emits' = Append(emits, <<>>)
          /\ requests' = Append(requests,
                 Request("swap_order", <<i>>, <<IntParse(local_orderid)>>))
          /\ sending' = {i}
    /\ UNCHANGED logs
    /\ UNCHANGED <<connect_time, order_count_lock, thr, idLog, acquired, connects>>

\* send_order from gateway.on_order(order) to its return (lines 421-422)
SendOrderOnOrder ==
    /\ \E i \in sending :
          /\ emits' = OnOrder(emits, i, orders[i].status)
          /\ sending' = {}
    /\ UNCHANGED <<orders, requests, logs>>
    /\ UNCHANGED idVars

\* send_orders: every order is emitted inside the loop, before add_request
SendOrders(n) ==
    /\ sending = {}
    /\ Len(orders) + n <= MaxOrders
    /\ LET first == Len(orders)
           ids == [k \in 1..n |-> LocalOrderid(connect_time, order_count + k)]
       IN /\ order_count' = order_count + n
          /\ orders' = orders \o [k \in 1..n |-> CreateOrderData(ids[k])]
          /\ emits' = emits \o [k \in 1..n |-> <<"SUBMITTING">>]
          /\ requests' = Append(requests,
                 Request("swap_batchorder", [k \in 1..n |-> first + k],
                         [k \in 1..n |-> IntParse(ids[k])]))
    /\ UNCHANGED <<sending, logs>>
    /\ UNCHANGED <<connect_time, order_count_lock, thr, idLog, acquired, connects>>

\* the workers answer requests once connect() has started them (self.start())
Queued(r, path) ==
    /\ connects # <<>>
    /\ r \in DOMAIN requests
    /\ requests[r].path = path
    /\ requests[r].state = "queued"

\* the orders of a list set to rejected, each emitted, in list order
RejectAll(os) ==
    /\ orders' = [i \in DOMAIN orders |->
                    IF i \in Range(os) THEN [orders[i] EXCEPT !.status = "REJECTED"]
                    ELSE orders[i]]
    /\ emits' = [i \in DOMAIN emits |->
                    emits[i] \o [k \in 1..Occurrences(os, i) |-> "REJECTED"]]

OnSendOrder(r, data) ==
    /\ Queued(r, "swap_order")
    /\ IF CheckError(data)
       THEN RejectAll(requests[r].extra) /\ logs' = 1
       ELSE UNCHANGED <<orders, emits>> /\ logs' = 0
    /\ requests' = Answered(r, "callback", data)
    /\ UNCHANGED sending
    /\ UNCHANGED idVars

OnSendOrderFailedSilent(r) ==
    /\ Queued(r, "swap_order")
    /\ logs' = 1
    /\ requests' = Answered(r, "on_failed", requests[r].data)
    /\ UNCHANGED <<orders, emits, sending>>
    /\ UNCHANGED idVars

OnSendOrderFailed(r) ==
    /\ Queued(r, "swap_order")
    /\ RejectAll(requests[r].extra)
    /\ logs' = 1
    /\ requests' = Answered(r, "on_failed", requests[r].data)
    /\ UNCHANGED sending
    /\ UNCHANGED idVars

\* on_send_order_error: anything but a ConnectionError is also reported
OnSendOrderError(r, connection_error) ==
    /\ Queued(r, "swap_order")
    /\ RejectAll(requests[r].extra)
    /\ logs' = IF connection_error THEN 0 ELSE 1
    /\ requests' = Answered(r, "on_error", requests[r].data)
    /\ UNCHANGED sending
    /\ UNCHANGED idVars

\* on_send_orders: no check_error; only the body's "errors" list is read
OnSendOrdersRejectsAll(r, data) ==
    /\ Queued(r, "swap_batchorder")
    /\ IF data.errors # <<>>
       THEN RejectAll(requests[r].extra)
       ELSE UNCHANGED <<orders, emits>>
    /\ logs' = Len(data.errors)
    /\ requests' = Answered(r, "callback", data)
    /\ UNCHANGED sending
    /\ UNCHANGED idVars

OnSendOrders(r, data) ==
    /\ Queued(r, "swap_batchorder")
    /\ RejectAll([k \in DOMAIN data.errors |-> requests[r].extra[data.errors[k] + 1]])
    /\ logs' = Len(data.errors)
    /\ requests' = Answered(r, "callback", data)
    /\ UNCHANGED sending
    /\ UNCHANGED idVars

OnSendOrdersFailed(r) ==
    /\ Queued(r, "swap_batchorder")
    /\ RejectAll(requests[r].extra)
    /\ logs' = 1
    /\ requests' = Answered(r, "on_failed", requests[r].data)
    /\ UNCHANGED sending
    /\ UNCHANGED idVars

OnSendOrdersError(r, connection_error) ==
    /\ Queued(r, "swap_batchorder")
    /\ RejectAll(requests[r].extra)
    /\ logs' = IF connection_error THEN 0 ELSE 1
    /\ requests' = Answered(r, "on_error", requests[r].data)
    /\ UNCHANGED sending
    /\ UNCHANGED idVars

--------------------------------------------------------------------------
(* HuobiInverseRestApi.cancel_order and its callbacks *)

InitCancel == cancels = <<>>

CLIENT_ORDER_ID_ABOVE == 1000000

\* req.orderid values: the boundary ids, the ids of the order pushes (7 a
\* client_order_id, 9 an order_id), a local id made before connect ("010001")
\* and one made after it
CancelOrderids ==
    { <<9,9,9,9,9,9>>, <<1,0,0,0,0,0,0>>, <<1,0,0,0,0,0,1>>, <<7>>, <<9>>,
      LocalOrderid(<<0>>, INITIAL_ORDER_COUNT + 1) }
    \cup { LocalOrderid(IntParse(now), INITIAL_ORDER_COUNT + 1) : now \in Clock }

\* if orderid > 1000000
IsClientOrderIdInclusive(orderid) == ~IntGt(Digits(CLIENT_ORDER_ID_ABOVE), orderid)

IsClientOrderId(orderid) == IntGt(orderid, Digits(CLIENT_ORDER_ID_ABOVE))

CancelData(symbol, orderid) ==
    IF IsClientOrderId(orderid)
    THEN [contract_code |-> symbol, client_order_id |-> orderid]
    ELSE [contract_code |-> symbol, order_id |-> orderid]

CancelOrder(symbol, orderid) ==
    /\ Len(cancels) < MaxCancels
    /\ cancels' = Append(cancels, [orderid |-> orderid, state |-> "queued",
                                   data |-> CancelData(symbol, IntParse(orderid))])
    /\ UNCHANGED <<idVars, orderVars>>

\* on_cancel_order: self.check_error(data, ...) logs an exchange error
OnCancelOrder(c, data) ==
    /\ connects # <<>>
    /\ c \in DOMAIN cancels
    /\ cancels[c].state = "queued"
    /\ cancels' = [cancels EXCEPT ![c].state = "done"]
    /\ logs' = IF CheckError(data) THEN 1 ELSE 0
    /\ UNCHANGED <<idVars, orders, requests, emits, sending>>

OnCancelOrderFailed(c) ==
    /\ connects # <<>>
    /\ c \in DOMAIN cancels
    /\ cancels[c].state = "queued"
    /\ cancels' = [cancels EXCEPT ![c].state = "done"]
    /\ logs' = 1
    /\ UNCHANGED <<idVars, orders, requests, emits, sending>>

--------------------------------------------------------------------------
(* HuobiInverseRestApi: the query callbacks.  A response body is its status *)
(* field and its "data"; what a callback hands to the gateway is a bag of   *)
(* records (the order of the calls within one callback is not kept).        *)

InitQuery ==
    /\ positions = <<>>
    /\ contract_codes = {}
    /\ order_codes = {}
    /\ call = [handler |-> "", status |-> "", data |-> <<>>]
    /\ out = EmptyBag
    /\ posEver = {}

Codes == {"BTC-USD", "ETH-USD"}

DIRECTION_HUOBIS2VT(direction) == IF direction = "buy" THEN "LONG" ELSE "SHORT"

\* key = f"{d['contract_code']}_{d['direction']}"
PositionKey(contract_code, direction) == <<contract_code, direction>>

PositionKeys(codes) == {PositionKey(c, d) : c \in codes, d \in {"buy", "sell"}}

\* the rows of a position response: one per (contract, direction) it reports
PositionRows ==
    { [volume |-> 1, frozen |-> 0, cost_hold |-> 5, profit |-> 1],
      [volume |-> 2, frozen |-> 1, cost_hold |-> 7, profit |-> 0 - 1] }

PositionLists(codes) == UNION {[K -> PositionRows] : K \in SUBSET PositionKeys(codes)}

AccountLists ==
    SUBSET { [symbol |-> "BTC", margin_balance |-> 3, margin_frozen |-> 1],
             [symbol |-> "ETH", margin_balance |-> 2, margin_frozen |-> 0] }

ContractLists == SUBSET Codes

\* open orders: with a client_order_id, or without one (falsy: <<>>)
OpenOrderLists ==
    SUBSET { [client_order_id |-> LocalOrderid(<<0>>, INITIAL_ORDER_COUNT + 1),
              order_id |-> <<7, 7>>, status |-> 3],
             [client_order_id |-> <<>>, order_id |-> <<7, 8>>, status |-> 4] }

\* the statuses of a response body; anything but "error" passes check_error
Statuses == {"ok", "error"}

Log == [type |-> "log", data |-> [text |-> "log"]]

Emit(type, data) == [type |-> type, data |-> data]

\* PositionData(symbol, exchange, direction, gateway_name): a flat position
PositionData(symbol, direction) ==
    [symbol |-> symbol, direction |-> DIRECTION_HUOBIS2VT(direction),
     volume |-> 0, frozen |-> 0, price |-> 0, pnl |-> 0]

Flat(position) ==
    [position EXCEPT !.volume = 0, !.frozen = 0, !.price = 0, !.pnl = 0]

Filled(position, d) ==
    [position EXCEPT !.volume = d.volume, !.frozen = d.frozen,
                     !.price = d.cost_hold, !.pnl = d.profit]

\* the timer's account and position queries are answered once connect() has
\* started the client
Started == connects # <<>>

\* a request of the bag is answered: it leaves the bag
Pending(path, extra) == BagIn([path |-> path, extra |-> extra], inflight)

Called(handler, status, data) ==
    call' = [handler |-> handler, status |-> status, data |-> data]

OnQueryAccount(status, data) ==
    /\ Started
    /\ Called("on_query_account", status, data)
    /\ out' = IF CheckError([status |-> status])
              THEN SetToBag({Log})
              ELSE SetToBag({Emit("account", d) : d \in data})
    /\ UNCHANGED <<positions, contract_codes, order_codes, posEver, inflight>>

\* the cache after the zeroing loop and the loop over the rows
Reconciled(cache, rows) ==
    [k \in DOMAIN cache \cup DOMAIN rows |->
        LET position == IF k \in DOMAIN cache THEN Flat(cache[k])
                        ELSE PositionData(k[1], k[2])
        IN IF k \in DOMAIN rows THEN Filled(position, rows[k]) ELSE position]

ReconciledKeepsStale(cache, rows) ==
    [k \in DOMAIN cache \cup DOMAIN rows |->
        LET position == IF k \in DOMAIN cache THEN cache[k]
                        ELSE PositionData(k[1], k[2])
        IN IF k \in DOMAIN rows THEN Filled(position, rows[k]) ELSE position]

OnQueryPositionKeepsStale(status, data) ==
    /\ Started
    /\ Called("on_query_position", status, data)
    /\ IF CheckError([status |-> status])
       THEN /\ positions' = positions
            /\ out' = SetToBag({Log})
       ELSE /\ positions' = ReconciledKeepsStale(positions, data)
            /\ out' = SetToBag({Emit("position", positions'[k]) : k \in DOMAIN positions'})
    /\ posEver' = posEver \cup DOMAIN positions'
    /\ UNCHANGED <<contract_codes, order_codes, inflight>>

OnQueryPositionZeroesFirst(status, data) ==
    /\ Started
    /\ Called("on_query_position", status, data)
    /\ IF CheckError([status |-> status])
       THEN /\ positions' = [k \in DOMAIN positions |-> Flat(positions[k])]
            /\ out' = SetToBag({Log})
       ELSE /\ positions' = Reconciled(positions, data)
            /\ out' = SetToBag({Emit("position", positions'[k]) : k \in DOMAIN positions'})
    /\ posEver' = posEver \cup DOMAIN positions'
    /\ UNCHANGED <<contract_codes, order_codes, inflight>>

OnQueryPosition(status, data) ==
    /\ Started
    /\ Called("on_query_position", status, data)
    /\ IF CheckError([status |-> status])
       THEN /\ positions' = positions
            /\ out' = SetToBag({Log})
       ELSE /\ positions' = Reconciled(positions, data)
            /\ out' = SetToBag({Emit("position", positions'[k]) : k \in DOMAIN positions'})
    /\ posEver' = posEver \cup DOMAIN positions'
    /\ UNCHANGED <<contract_codes, order_codes, inflight>>

\* query_order(contract_code)
QueryOrder(contract_code) == Query("swap_openorders", contract_code)

\* on_query_contract: the codes are added and emitted, then the open-order
\* chain starts with a code popped from a copy of all the codes known (pop
\* raises on an empty set, which ends the callback)
OnQueryContract(status, data) ==
    /\ Pending("swap_contract_info", "")
    /\ Called("on_query_contract", status, data)
    /\ IF CheckError([status |-> status])
       THEN /\ out' = SetToBag({Log})
            /\ inflight' = inflight (-) QueryContract
            /\ UNCHANGED <<contract_codes, order_codes>>
       ELSE /\ contract_codes' = contract_codes \cup data
            /\ out' = SetToBag({Emit("contract", [symbol |-> c]) : c \in data} \cup {Log})
            /\ IF contract_codes' = {}
               THEN /\ order_codes' = {}
                    /\ inflight' = inflight (-) QueryContract
               ELSE \E contract_code \in contract_codes' :
                    /\ order_codes' = contract_codes' \ {contract_code}
                    /\ inflight' = (inflight (-) QueryContract) (+) QueryOrder(contract_code)
    /\ UNCHANGED <<positions, posEver>>

\* the order id of an open order: the client's if present, else the exchange's
ResponseOrderid(d) == IF d.client_order_id \notin {<<>>, <<0>>} THEN d.client_order_id ELSE d.order_id

OnQueryOrder(contract_code, status, data) ==
    /\ Pending("swap_openorders", contract_code)
    /\ Called("on_query_order", status, data)
    /\ IF CheckError([status |-> status])
       THEN /\ out' = SetToBag({Log})
            /\ inflight' = inflight (-) QueryOrder(contract_code)
            /\ UNCHANGED order_codes
       ELSE /\ out' = SetToBag({Emit("order", [orderid |-> ResponseOrderid(d),
                                                status |-> d.status]) : d \in data}
                               \cup {Log})
            /\ IF order_codes # {}
               THEN \E next \in order_codes :
                    /\ order_codes' = order_codes \ {next}
                    /\ inflight' = (inflight (-) QueryOrder(contract_code)) (+) QueryOrder(next)
               ELSE /\ inflight' = inflight (-) QueryOrder(contract_code)
                    /\ UNCHANGED order_codes
    /\ UNCHANGED <<positions, contract_codes, posEver>>

--------------------------------------------------------------------------
(* HuobiInverseDataWebsocketApi: the market channel.  A tick is a TickData  *)
(* object; its price and volume fields are 0 until a frame sets them.       *)

InitTick ==
    /\ ticks = <<>>
    /\ subscribed = <<>>
    /\ tickOut = <<>>
    /\ fed = <<>>
    /\ sent = <<>>
    /\ pushed = [ch |-> "", symbol |-> "", keys |-> {}]

DEPTH_LEVELS == 5

\* TickData(symbol, name, exchange, datetime, gateway_name)
TickData(symbol) ==
    [symbol |-> symbol, last_price |-> 0, open_price |-> 0, high_price |-> 0,
     low_price |-> 0, volume |-> 0,
     bid_price |-> [n \in 1..DEPTH_LEVELS |-> 0], bid_volume |-> [n \in 1..DEPTH_LEVELS |-> 0],
     ask_price |-> [n \in 1..DEPTH_LEVELS |-> 0], ask_volume |-> [n \in 1..DEPTH_LEVELS |-> 0]]

\* the [price, volume] levels of the two sides of a depth frame
BidLevels == {<<10, 1>>, <<9, 2>>}

AskLevels == {<<11, 1>>}

\* one side of a depth frame: a list of levels, possibly empty
Books(levels) == UNION {[1..k -> levels] : k \in 0..MaxBook}

\* the tick of a depth frame: "bids" and "asks" lists, either of which the
\* frame may lack
DepthTicks ==
    { d \in [keys : SUBSET {"bids", "asks"}, bids : Books(BidLevels), asks : Books(AskLevels)] :
        /\ "bids" \notin d.keys => d.bids = <<>>
        /\ "asks" \notin d.keys => d.asks = <<>> }

\* the tick of a detail frame
DetailTicks ==
    { [open |-> 10, high |-> 11, low |-> 10, close |-> 10, vol |-> 3],
      [open |-> 10, high |-> 11, low |-> 10, close |-> 11, vol |-> 4] }

Min(a, b) == IF a < b THEN a ELSE b

\* the first min(5, len(levels)) levels written over those of the tick
SetLevels(old, levels, field) ==
    [n \in 1..DEPTH_LEVELS |->
        IF n <= Min(DEPTH_LEVELS, Len(levels)) THEN levels[n][field] ELSE old[n]]

With(f, x, v) == [y \in DOMAIN f \cup {x} |-> IF y = x THEN v ELSE f[y]]

\* line 927 calls self.subscribe_data, which no class of the file defines:
\* the call raises AttributeError and subscribe ends there
HasSubscribeData == FALSE

\* {"sub": f"market.{req.symbol}.depth.step0"}
DepthSub(symbol) == [sub |-> <<"market", symbol, "depth", "step0">>]

\* {"sub": f"market.{req.symbol}.detail"}
DetailSub(symbol) == [sub |-> <<"market", symbol, "detail">>]

\* the frames subscribe hands to send_packet before it returns or raises
SubscribeFrames(symbol) ==
    IF HasSubscribeData THEN <<DepthSub(symbol), DetailSub(symbol)>> ELSE <<>>

Pushed(ch, symbol, keys) == pushed' = [ch |-> ch, symbol |-> symbol, keys |-> keys]

\* subscribe(req) applied to the registry, the ticks and the frames sent
Subscribed(reg, symbol) == IF symbol \in Range(reg) THEN reg ELSE Append(reg, symbol)

Subscribe(symbol) ==
    /\ subscribed' = Subscribed(subscribed, symbol)
    /\ ticks' = With(ticks, symbol, TickData(symbol))
    /\ fed' = With(fed, symbol, {})
    /\ sent' = SubscribeFrames(symbol)
    /\ tickOut' = <<>>
    /\ Pushed("subscribe", symbol, {})

\* on_connected: subscribe(req) for every recorded request, in the order
\* recorded; an exception raised by subscribe ends the loop
OnConnected ==
    LET replayed == IF HasSubscribeData \/ subscribed = <<>> THEN subscribed
                    ELSE <<subscribed[1]>>
    IN /\ ticks' = [s \in DOMAIN ticks |->
                      IF s \in Range(replayed) THEN TickData(s) ELSE ticks[s]]
       /\ fed' = [s \in DOMAIN fed |-> IF s \in Range(replayed) THEN {} ELSE fed[s]]
       /\ sent' = IF HasSubscribeData /\ subscribed # <<>>
                  THEN [k \in 1..(2 * Len(subscribed)) |->
                          SubscribeFrames(subscribed[(k + 1) \div 2])[2 - (k % 2)]]
                  ELSE <<>>
       /\ tickOut' = <<>>
       /\ Pushed("on_connected", "", {})
       /\ UNCHANGED subscribed

OnMarketDepthEmitsOnChange(symbol, tick_data) ==
    /\ symbol \in DOMAIN ticks
    /\ Pushed("depth", symbol, tick_data.keys)
    /\ IF {"bids", "asks"} \subseteq tick_data.keys
       THEN LET tick == [ticks[symbol] EXCEPT
                            !.bid_price = SetLevels(@, tick_data.bids, 1),
                            !.bid_volume = SetLevels(@, tick_data.bids, 2),
                            !.ask_price = SetLevels(@, tick_data.asks, 1),
                            !.ask_volume = SetLevels(@, tick_data.asks, 2)]
            IN /\ ticks' = [ticks EXCEPT ![symbol] = tick]
               /\ fed' = [fed EXCEPT ![symbol] =
                             IF tick_data.bids # <<>> \/ tick_data.asks # <<>>
                             THEN @ \cup {"depth"} ELSE @]
               /\ tickOut' = IF tick.last_price # 0 /\ tick # ticks[symbol]
                             THEN <<tick>> ELSE <<>>
       ELSE /\ UNCHANGED <<ticks, fed>>
            /\ tickOut' = <<>>
    /\ sent' = <<>>
    /\ UNCHANGED subscribed

\* on_market_depth for a frame of a subscribed symbol
OnMarketDepth(symbol, tick_data) ==
    /\ symbol \in DOMAIN ticks
    /\ Pushed("depth", symbol, tick_data.keys)
    /\ IF {"bids", "asks"} \subseteq tick_data.keys
       THEN LET tick == [ticks[symbol] EXCEPT
                            !.bid_price = SetLevels(@, tick_data.bids, 1),
                            !.bid_volume = SetLevels(@, tick_data.bids, 2),
                            !.ask_price = SetLevels(@, tick_data.asks, 1),
                            !.ask_volume = SetLevels(@, tick_data.asks, 2)]
            IN /\ ticks' = [ticks EXCEPT ![symbol] = tick]
               /\ fed' = [fed EXCEPT ![symbol] =
                             IF tick_data.bids # <<>> \/ tick_data.asks # <<>>
                             THEN @ \cup {"depth"} ELSE @]
               /\ tickOut' = IF tick.last_price # 0 THEN <<tick>> ELSE <<>>
       ELSE /\ UNCHANGED <<ticks, fed>>
            /\ tickOut' = <<>>
    /\ sent' = <<>>
    /\ UNCHANGED subscribed

\* on_market_detail for a frame of a subscribed symbol
OnMarketDetail(symbol, tick_data) ==
    /\ symbol \in DOMAIN ticks
    /\ Pushed("detail", symbol, {"open", "high", "low", "close", "vol"})
    /\ LET tick == [ticks[symbol] EXCEPT
                       !.open_price = tick_data.open, !.high_price = tick_data.high,
                       !.low_price = tick_data.low, !.last_price = tick_data.close,
                       !.volume = tick_data.vol]
       IN /\ ticks' = [ticks EXCEPT ![symbol] = tick]
          /\ fed' = [fed EXCEPT ![symbol] = @ \cup {"detail"}]
          /\ tickOut' = IF tick.bid_price[1] # 0 THEN <<tick>> ELSE <<>>
    /\ sent' = <<>>
    /\ UNCHANGED subscribed

--------------------------------------------------------------------------
(* HuobiInverseTradeWebsocketApi: the trade channel.  A packet is a record    *)
(* whose fields are the keys of the decoded frame ("err-msg" is written       *)
(* err_msg); a topic is the list of its dot-separated words.                  *)

NoPacket == [op |-> ""]

InitTrade ==
    /\ trade_log = <<>>
    /\ packet = NoPacket
    /\ tradeOut = <<>>
    /\ tradeids = EmptyBag
    /\ handled = 0
    /\ ran = [branch |-> "", wrote |-> <<>>, sent |-> <<>>]

\* what the websocket client does and sees, in order
Connected == [ev |-> "connected"]

Sent(frame) == [ev |-> "sent", frame |-> frame]

Received(p) == [ev |-> "received", packet |-> p]

\* login(): {"op": "auth", "type": "api"} updated with create_signature(...)
AuthFrame == [op |-> "auth", type |-> "api", Signature |-> "signed"]

\* subscribe(): {"op": "sub", "topic": "orders.*"}
SubFrame == [op |-> "sub", topic |-> <<"orders", "*">>]

\* the trade entries of an order push
TradeEntries == [id : 1..MaxTrades, trade_price : {10}, trade_volume : {1}]

\* the trade list of one push: each trade listed once
TradeLists ==
    { l \in UNION {[1..k -> TradeEntries] : k \in 0..MaxTrades} :
        \A i, j \in DOMAIN l : l[i].id = l[j].id => i = j }

\* order pushes: client_order_id is 0 when the order has none
OrderPushes ==
    [op : {"notify"}, topic : {<<"orders", "btc-usd">>}, contract_code : {"BTC-USD"},
     client_order_id : {0, 7}, order_id : {9}, direction : {"buy"}, offset : {"open"},
     status : {4}, trade : TradeLists]

\* the packets of the channel that are not order pushes
ControlPackets ==
    { [ping |-> 1],
      [op |-> "ping", ts |-> 1],
      [op |-> "auth", err_msg |-> "invalid signature"],
      [err_msg |-> "invalid pong"],
      [op |-> "auth", type |-> "api"],
      [op |-> "sub", topic |-> <<"orders", "*">>],
      [op |-> "notify", topic |-> <<"positions", "btc-usd">>] }

\* packets carrying more than one of the keys on_packet tests
MixedPackets ==
    { [ping |-> 1, err_msg |-> "invalid signature"],
      [ping |-> 1, op |-> "auth", type |-> "api"],
      [ping |-> 1, op |-> "ping", ts |-> 2],
      [op |-> "ping", ts |-> 1, err_msg |-> "invalid pong"],
      [op |-> "auth", err_msg |-> "invalid pong"],
      [op |-> "notify", topic |-> <<"orders", "btc-usd">>, err_msg |-> "invalid signature"] }

Has(p, key) == key \in DOMAIN p

Ran(branch, texts, frames) == ran' = [branch |-> branch, wrote |-> texts, sent |-> frames]

\* on_error_msg(packet): the texts handed to gateway.write_log
OnErrorMsg(p) == IF p.err_msg = "invalid pong" THEN <<>> ELSE <<p.err_msg>>

\* packet.get("op", None) and packet["op"] behind an "op" in packet test
Op(p) == IF Has(p, "op") THEN p.op ELSE "None"

\* "orders" in topic
OrdersIn(topic) == \E k \in DOMAIN topic : topic[k] = "orders"

\* on_order(data): the order update, then one trade per entry of data["trade"]
OrderUpdate(data) ==
    [type |-> "order", symbol |-> data.contract_code,
     orderid |-> IF data.client_order_id # 0 THEN data.client_order_id ELSE data.order_id,
     direction |-> DIRECTION_HUOBIS2VT(data.direction), offset |-> data.offset,
     status |-> data.status]

TradeUpdate(order, d) ==
    [type |-> "trade", symbol |-> order.symbol, orderid |-> order.orderid,
     tradeid |-> d.id, direction |-> order.direction, offset |-> order.offset,
     price |-> d.trade_price, volume |-> d.trade_volume]

TradeOnOrderTradesFirst(data) ==
    LET order == OrderUpdate(data)
    IN [k \in DOMAIN data.trade |-> TradeUpdate(order, data.trade[k])] \o <<order>>

TradeOnOrder(data) ==
    LET order == OrderUpdate(data)
    IN <<order>> \o [k \in DOMAIN data.trade |-> TradeUpdate(order, data.trade[k])]

\* on_data(packet)
OnData(p) ==
    IF Op(p) # "notify" THEN <<>>
    ELSE IF OrdersIn(p.topic) THEN TradeOnOrder(p) ELSE <<>>

TradeIds(emitted) ==
    LET ids == {emitted[k].tradeid : k \in {j \in DOMAIN emitted : emitted[j].type = "trade"}}
    IN [id \in ids |-> Cardinality({k \in DOMAIN emitted :
                                        emitted[k].type = "trade" /\ emitted[k].tradeid = id})]

TradeOnConnectedSubscribes ==
    /\ handled < MaxPackets
    /\ handled' = handled + 1
    /\ trade_log' = trade_log \o <<Connected, Sent(AuthFrame), Sent(SubFrame)>>
    /\ Ran("on_connected", <<"connected">>, <<AuthFrame, SubFrame>>)
    /\ tradeOut' = <<>>
    /\ packet' = NoPacket
    /\ UNCHANGED tradeids

\* on_connected of the trade channel: a log line, then login()
TradeOnConnected ==
    /\ handled < MaxPackets
    /\ handled' = handled + 1
    /\ trade_log' = trade_log \o <<Connected, Sent(AuthFrame)>>
    /\ Ran("on_connected", <<"connected">>, <<AuthFrame>>)
    /\ tradeOut' = <<>>
    /\ packet' = NoPacket
    /\ UNCHANGED tradeids

OnPacketAuthFirst(p) ==
    /\ handled < MaxPackets
    /\ trade_log # <<>>
    /\ handled' = handled + 1
    /\ packet' = p
    /\ IF Has(p, "ping")
       THEN /\ trade_log' = Append(trade_log, Sent([pong |-> p.ping]))
            /\ Ran("pong", <<>>, <<[pong |-> p.ping]>>)
            /\ tradeOut' = <<>>
       ELSE IF Op(p) = "ping"
       THEN /\ trade_log' = Append(trade_log, Sent([op |-> "pong", ts |-> p.ts]))
            /\ Ran("op_pong", <<>>, <<[op |-> "pong", ts |-> p.ts]>>)
            /\ tradeOut' = <<>>
       ELSE IF Op(p) = "auth"
       THEN /\ trade_log' = trade_log \o <<Received(p), Sent(SubFrame)>>
            /\ Ran("on_login", <<"login">>, <<SubFrame>>)
            /\ tradeOut' = <<>>
       ELSE IF Has(p, "err_msg")
       THEN /\ UNCHANGED trade_log
            /\ Ran("on_error_msg", OnErrorMsg(p), <<>>)
            /\ tradeOut' = <<>>
       ELSE /\ UNCHANGED trade_log
            /\ Ran("on_data", <<>>, <<>>)
            /\ tradeOut' = OnData(p)
    /\ tradeids' = tradeids (+) TradeIds(tradeOut')

\* on_packet(packet) of a packet read from the open connection
OnPacket(p) ==
    /\ handled < MaxPackets
    /\ trade_log # <<>>
    /\ handled' = handled + 1
    /\ packet' = p
    /\ IF Has(p, "ping")
       THEN /\ trade_log' = Append(trade_log, Sent([pong |-> p.ping]))
            /\ Ran("pong", <<>>, <<[pong |-> p.ping]>>)
            /\ tradeOut' = <<>>
       ELSE IF Op(p) = "ping"
       THEN /\ trade_log' = Append(trade_log, Sent([op |-> "pong", ts |-> p.ts]))
            /\ Ran("op_pong", <<>>, <<[op |-> "pong", ts |-> p.ts]>>)
            /\ tradeOut' = <<>>
       ELSE IF Has(p, "err_msg")
       THEN /\ UNCHANGED trade_log
            /\ Ran("on_error_msg", OnErrorMsg(p), <<>>)
            /\ tradeOut' = <<>>
       ELSE IF Op(p) = "auth"
       THEN /\ trade_log' = trade_log \o <<Received(p), Sent(SubFrame)>>
            /\ Ran("on_login", <<"login">>, <<SubFrame>>)
            /\ tradeOut' = <<>>
       ELSE /\ UNCHANGED trade_log
            /\ Ran("on_data", <<>>, <<>>)
            /\ tradeOut' = OnData(p)
    /\ tradeids' = tradeids (+) TradeIds(tradeOut')

--------------------------------------------------------------------------
(* HuobiInverseRestApi.query_history: the paging loop.  Times are counted   *)
(* in bar intervals; the bars of a page are held as one run, the time of    *)
(* its first bar and their number.                                          *)

\* count: int = 1999
COUNT == 1999

\* req.start
Starts == {0, 7}

InitHistory ==
    /\ history = <<>>
    /\ start = 0
    /\ resps = <<>>
    /\ hpc = "idle"

\* what self.request returns: a status code and a JSON body that is falsy,
\* has an empty "data" list, or has n rows
PageSizes == {1, 500, COUNT - 1, COUNT, COUNT + 1}

Responses ==
    [status : {404, 500}, body : {"text"}, n : {0}]
        \cup [status : {200}, body : {"empty", "nodata"}, n : {0}]
        \cup [status : {200}, body : {"rows"}, n : PageSizes]

\* a page of n rows answering a request from the time start
Run(from, n) == [from |-> from, n |-> n]

LastBatchAtCount(len) == len <= COUNT

LastBatchNever(len) == FALSE

\* if len(buf) < count: break
LastBatch(len) == len < COUNT

\* query_history(req) up to its loop
QueryHistory(req_start) ==
    /\ hpc = "idle"
    /\ history' = <<>>
    /\ start' = req_start
    /\ hpc' = "loop"
    /\ UNCHANGED resps

\* one turn of the while loop: the request, its response, and the break tests;
\* a break is followed by return history
HistoryPage(resp) ==
    /\ hpc = "loop"
    /\ Len(resps) < MaxPages
    /\ resps' = Append(resps, resp)
    /\ IF resp.status \div 100 # 2
       THEN hpc' = "returned" /\ UNCHANGED <<history, start>>
       ELSE IF resp.body = "empty"
       THEN hpc' = "returned" /\ UNCHANGED <<history, start>>
       ELSE IF resp.n = 0
       THEN hpc' = "returned" /\ UNCHANGED <<history, start>>
       ELSE /\ history' = Append(history, Run(start, resp.n))
            /\ start' = start + resp.n - 1
            /\ hpc' = IF LastBatch(resp.n) THEN "returned" ELSE "loop"

--------------------------------------------------------------------------
(* create_signature.  A string is the sequence of its code points, so that  *)
(* sorting, URL-encoding and joining are computed as Python computes them.  *)

AccessKeyId == <<65, 99, 99, 101, 115, 115, 75, 101, 121, 73, 100>>

SignatureMethod == <<83, 105, 103, 110, 97, 116, 117, 114, 101, 77, 101, 116, 104, 111, 100>>

SignatureVersion == <<83, 105, 103, 110, 97, 116, 117, 114, 101, 86, 101, 114, 115, 105, 111, 110>>

Timestamp == <<84, 105, 109, 101, 115, 116, 97, 109, 112>>

Signature == <<83, 105, 103, 110, 97, 116, 117, 114, 101>>

HmacSHA256 == <<72, 109, 97, 99, 83, 72, 65, 50, 53, 54>>

\* "2"
Version2 == <<50>>

\* datetime.utcnow().strftime("%Y-%m-%dT%H:%M:%S"): two readings of the clock
UtcNow == { <<50, 48, 50, 54, 45, 49, 49, 45, 48, 53, 84, 48, 57, 58, 51, 48, 58, 48, 48>>,
            <<50, 48, 50, 54, 45, 49, 49, 45, 48, 53, 84, 48, 57, 58, 51, 48, 58, 48, 49>> }

\* the query parameters a caller may pass: "B": "1:2", "a": "1", "b": "2"
ParamItems == { <<<<66>>, <<49, 58, 50>>>>,
                <<<<97>>, <<49>>>>,
                <<<<98>>, <<50>>>> }

\* get_params: None, or a dict, held as the list of its items in insertion
\* order (each name once)
None == [none |-> TRUE, items |-> <<>>]

GetParams ==
    {None} \cup
    {[none |-> FALSE, items |-> l] :
        l \in {l \in UNION {[1..k -> ParamItems] : k \in 0..Cardinality(ParamItems)} :
                  \A i, j \in DOMAIN l : l[i][1] = l[j][1] => i = j}}

\* if get_params:
Truthy(get_params) == ~get_params.none /\ get_params.items # <<>>

ApiKey == <<107, 101, 121>>

SecretKey == <<115, 101, 99, 114, 101, 116>>

Method == <<71, 69, 84>>

Host == <<97, 112, 105, 46, 104, 98, 100, 109, 46, 99, 111, 109>>

Path == <<47, 115, 119, 97, 112, 45, 97, 112, 105, 47, 118, 49, 47, 115, 119, 97, 112, 95, 111, 114, 100, 101, 114>>

RECURSIVE StrLess(_, _)
\* a < b for two str: by code point, a proper prefix first
StrLess(a, b) ==
    IF b = <<>> THEN FALSE
    ELSE IF a = <<>> THEN TRUE
    ELSE IF Head(a) # Head(b) THEN Head(a) < Head(b)
    ELSE StrLess(Tail(a), Tail(b))

\* a < b for two (name, value) tuples
TupleLess(a, b) == StrLess(a[1], b[1]) \/ (a[1] = b[1] /\ StrLess(a[2], b[2]))

RECURSIVE Insert(_, _)
Insert(x, l) ==
    IF l = <<>> THEN <<x>>
    ELSE IF TupleLess(Head(l), x) THEN <<Head(l)>> \o Insert(x, Tail(l))
    ELSE <<x>> \o l

RECURSIVE Sorted(_)
\* list(sorted(l))
Sorted(l) == IF l = <<>> THEN <<>> ELSE Insert(Head(l), Sorted(Tail(l)))

MandatoryStamped(api_key, now) ==
    << <<AccessKeyId, api_key>>, <<SignatureMethod, HmacSHA256>>,
       <<SignatureVersion, now>>, <<Timestamp, now>> >>

\* the four fields every call starts from, with the clock's reading
Mandatory(api_key, now) ==
    << <<AccessKeyId, api_key>>, <<SignatureMethod, HmacSHA256>>,
       <<SignatureVersion, Version2>>, <<Timestamp, now>> >>

SortedParamsAppended(api_key, now, get_params) ==
    IF Truthy(get_params)
    THEN Mandatory(api_key, now) \o get_params.items
    ELSE Mandatory(api_key, now)

\* sorted_params as handed to urlencode: extended and sorted only if
\* get_params is truthy
SortedParams(api_key, now, get_params) ==
    IF Truthy(get_params)
    THEN Sorted(Mandatory(api_key, now) \o get_params.items)
    ELSE Mandatory(api_key, now)

Hex(d) == IF d < 10 THEN 48 + d ELSE 55 + d

\* quote_plus of one character: letters, digits and _ . - ~ stay, a space
\* becomes +, anything else %XX
QuoteChar(c) ==
    IF \/ c \in 48..57 \/ c \in 65..90 \/ c \in 97..122
       \/ c \in {95, 46, 45, 126}
    THEN <<c>>
    ELSE IF c = 32 THEN <<43>>
    ELSE <<37, Hex(c \div 16), Hex(c % 16)>>

RECURSIVE QuotePlus(_)
QuotePlus(str) == IF str = <<>> THEN <<>> ELSE QuoteChar(Head(str)) \o QuotePlus(Tail(str))

RECURSIVE Join(_, _)
\* sep.join(l)
Join(sep, l) ==
    IF l = <<>> THEN <<>>
    ELSE IF Len(l) = 1 THEN l[1]
    ELSE l[1] \o sep \o Join(sep, Tail(l))

\* urllib.parse.urlencode(sorted_params)
UrlEncode(l) ==
    Join(<<38>>, [k \in DOMAIN l |-> QuotePlus(l[k][1]) \o <<61>> \o QuotePlus(l[k][2])])

\* base64 of the HMAC-SHA256 digest: a function of the key and the message
\* and of nothing else, different for different arguments
HmacB64(secret_key, payload) == <<0>> \o secret_key \o <<0>> \o payload

\* dict(l): a later entry of a name replaces an earlier one
Dict(l) ==
    [n \in {l[k][1] : k \in DOMAIN l} |->
        l[CHOOSE k \in DOMAIN l : l[k][1] = n /\ \A j \in DOMAIN l : l[j][1] = n => j <= k][2]]

create_signature(api_key, method, host, path, secret_key, get_params, now) ==
    LET sorted_params == SortedParams(api_key, now, get_params)
        encode_params == UrlEncode(sorted_params)
        payload == Join(<<10>>, <<method, host, path, encode_params>>)
        signature == HmacB64(secret_key, payload)
        params == Dict(sorted_params)
    IN [sorted_params |-> sorted_params,
        encode_params |-> encode_params,
        params |-> With(params, Signature, signature),
        get_params |-> get_params]

\* one call, at one reading of the clock
CreateSignature(get_params, now) ==
    /\ Len(calls) < MaxCalls
    /\ calls' = Append(calls,
          [given |-> get_params, now |-> now,
           did |-> create_signature(ApiKey, Method, Host, Path, SecretKey, get_params, now)])

--------------------------------------------------------------------------
(* HuobiInverseGateway: the timer that polls account and position.  The     *)
(* handler is registered by connect(); self.count does not exist before.    *)

InitTimer ==
    /\ count = 0
    /\ polled = <<>>

\* if self.count < 3: return
POLL_FROM == 3

\* gateway.connect(setting): the three clients connect, then init_query()
GatewayConnect ==
    /\ Connect
    /\ count' = 0
    /\ polled' = <<>>

\* process_timer_event(event), once connect() has registered it
ProcessTimerEvent ==
    /\ connects # <<>>
    /\ Len(polled) < MaxTicks
    /\ IF count + 1 < POLL_FROM
       THEN /\ count' = count + 1
            /\ polled' = Append(polled, <<>>)
            /\ UNCHANGED inflight
       ELSE /\ count' = count + 1
            /\ polled' = Append(polled, <<"swap_account_info", "swap_position_info">>)
            /\ inflight' = inflight (+) Query("swap_account_info", "")
                                    (+) Query("swap_position_info", "")
    /\ UNCHANGED <<order_count, connect_time, order_count_lock, thr, idLog, acquired, connects>>

--------------------------------------------------------------------------
(* The two channels of one order: the callbacks of its REST request and the *)
(* pushes of the trade channel that carry its client_order_id.              *)

\* STATUS_HUOBIS2VT
STATUS_HUOBIS2VT(status) ==
    CASE status = 3 -> "NOTTRADED"
      [] status = 4 -> "PARTTRADED"
      [] status = 5 -> "CANCELLED"
      [] status = 6 -> "ALLTRADED"
      [] status = 7 -> "CANCELLED"

\* on_order(data) for a push whose client_order_id is that of the i-th order
\* of send_order: a new OrderData is handed to gateway.on_order; the object
\* the REST request holds is not touched
OnOrderPush(i, status) ==
    /\ i \in DOMAIN orders
    /\ Len(pushLog) < MaxPushes
    /\ pushLog' = Append(pushLog, [orderid |-> IntParse(orders[i].orderid),
                                   status |-> STATUS_HUOBIS2VT(status)])
    /\ UNCHANGED <<idVars, orderVars>>

\* the exchange has pushed a state of the i-th order
PushedFor(i) == \E k \in DOMAIN pushLog : pushLog[k].orderid = IntParse(orders[i].orderid)

\* the exchange pushes an order it received and did not refuse: the request
\* is on its way or was answered by anything but an error body
MayPush(i) ==
    /\ connects # <<>>
    /\ \E r \in DOMAIN requests :
          /\ i \in Range(requests[r].extra)
          /\ ~(requests[r].via = "callback" /\ CheckError(requests[r].data))

\* the exchange answers with an error body only an order it never pushed
MayRefuse(r) == \A i \in Range(requests[r].extra) : ~PushedFor(i)

--------------------------------------------------------------------------
(* Specifications *)

Init == InitId /\ inflight = EmptyBag /\ InitOrder /\ InitCancel /\ InitQuery /\ InitTick /\ InitTrade /\ InitHistory /\ calls = <<>> /\ InitTimer /\ fresh = <<>> /\ pushLog = <<>>

\* caller threads generating ids while connect() runs
NextId ==
    LET others == <<orderVars, cancelVars, queryVars, channelVars>> IN
    \/ Connect /\ UNCHANGED others
    \/ \E t \in Threads : NloAcquire(t) /\ UNCHANGED <<inflight, others>>
    \/ \E t \in Threads : NloLoad(t) /\ UNCHANGED <<inflight, others>>
    \/ \E t \in Threads : NloStore(t) /\ UNCHANGED <<inflight, others>>
    \/ \E t \in Threads : NloFormat(t) /\ UNCHANGED <<inflight, others>>
    \/ \E t \in Threads : NloReturn(t) /\ UNCHANGED <<inflight, others>>

SpecId == Init /\ [][NextId]_vars

\* the REST client before connect(), or after one connect()
InitConnected ==
    /\ order_count = INITIAL_ORDER_COUNT
    /\ \E epochs \in {<<>>} \cup {<<IntParse(now)>> : now \in Clock} :
          /\ connects = epochs
          /\ connect_time = IF epochs = <<>> THEN <<0>> ELSE epochs[1]
          /\ inflight = IF epochs = <<>> THEN EmptyBag ELSE QueryContract
    /\ order_count_lock = {}
    /\ thr = [t \in Threads |-> IdleThread]
    /\ idLog = <<>>
    /\ acquired = 0

\* a caller placing orders while the REST client's workers answer them
NextOrder ==
    \/ SendOrderAddRequest /\ UNCHANGED <<inflight, cancelVars, queryVars, channelVars>>
    \/ SendOrderOnOrder /\ UNCHANGED <<inflight, cancelVars, queryVars, channelVars>>
    \/ \E n \in 1..MaxOrders : SendOrders(n) /\ UNCHANGED <<inflight, cancelVars, queryVars, channelVars>>
    \/ \E r \in DOMAIN requests : OnSendOrderFailed(r) /\ UNCHANGED <<inflight, cancelVars, queryVars, channelVars>>
    \/ \E r \in DOMAIN requests, data \in Bodies(0) :
          OnSendOrder(r, data) /\ UNCHANGED <<inflight, cancelVars, queryVars, channelVars>>
    \/ \E r \in DOMAIN requests, ce \in BOOLEAN :
          OnSendOrderError(r, ce) /\ UNCHANGED <<inflight, cancelVars, queryVars, channelVars>>
    \/ \E r \in DOMAIN requests : \E data \in Bodies(Len(requests[r].extra)) :
          OnSendOrders(r, data) /\ UNCHANGED <<inflight, cancelVars, queryVars, channelVars>>
    \/ \E r \in DOMAIN requests : OnSendOrdersFailed(r) /\ UNCHANGED <<inflight, cancelVars, queryVars, channelVars>>
    \/ \E r \in DOMAIN requests, ce \in BOOLEAN :
          OnSendOrdersError(r, ce) /\ UNCHANGED <<inflight, cancelVars, queryVars, channelVars>>

InitSending == InitConnected /\ InitOrder /\ InitCancel /\ InitQuery /\ InitTick /\ InitTrade /\ InitHistory /\ calls = <<>> /\ InitTimer /\ fresh = <<>> /\ pushLog = <<>>

SpecOrder == InitSending /\ [][NextOrder]_vars

NextCancel ==
    \/ \E symbol \in {"BTC-USD"}, orderid \in CancelOrderids :
          CancelOrder(symbol, orderid) /\ UNCHANGED <<inflight, queryVars, channelVars>>
    \/ \E c \in DOMAIN cancels, data \in Bodies(0) :
          OnCancelOrder(c, data) /\ UNCHANGED <<inflight, queryVars, channelVars>>
    \/ \E c \in DOMAIN cancels :
          OnCancelOrderFailed(c) /\ UNCHANGED <<inflight, queryVars, channelVars>>

SpecCancel == InitSending /\ [][NextCancel]_vars

\* the REST client's workers answering the queries of connect() and the timer
NextQuery ==
    LET others == <<orderVars, cancelVars, queryVars, channelVars>>
        rest == <<idVars, orderVars, cancelVars, channelVars>> IN
    \/ Connect /\ UNCHANGED others
    \/ \E data \in AccountLists : OnQueryAccount("ok", data) /\ UNCHANGED rest
    \/ OnQueryAccount("error", {}) /\ UNCHANGED rest
    \/ \E data \in PositionLists({"BTC-USD"}) : OnQueryPosition("ok", data) /\ UNCHANGED rest
    \/ OnQueryPosition("error", <<>>) /\ UNCHANGED rest
    \/ \E data \in ContractLists : OnQueryContract("ok", data) /\ UNCHANGED rest
    \/ OnQueryContract("error", {}) /\ UNCHANGED rest
    \/ \E c \in Codes, data \in OpenOrderLists : OnQueryOrder(c, "ok", data) /\ UNCHANGED rest
    \/ \E c \in Codes : OnQueryOrder(c, "error", {}) /\ UNCHANGED rest

SpecQuery == Init /\ [][NextQuery]_vars

\* the position cache over the polls of a connected client
NextPosition ==
    LET rest == <<idVars, orderVars, cancelVars, channelVars>> IN
    \/ \E data \in PositionLists(Codes) : OnQueryPosition("ok", data) /\ UNCHANGED rest
    \/ OnQueryPosition("error", <<>>) /\ UNCHANGED rest

SpecPosition == InitSending /\ [][NextPosition]_vars

\* the market channel: subscriptions, reconnects and the frames pushed
NextTick ==
    LET rest == <<idVars, orderVars, cancelVars, inflight, queryVars, tradeVars, historyVars, calls, timerVars, fresh, pushLog>> IN
    \/ \E symbol \in Codes : Subscribe(symbol) /\ UNCHANGED rest
    \/ OnConnected /\ UNCHANGED rest
    \/ \E symbol \in Codes, tick_data \in DepthTicks :
          OnMarketDepth(symbol, tick_data) /\ UNCHANGED rest
    \/ \E symbol \in Codes, tick_data \in DetailTicks :
          OnMarketDetail(symbol, tick_data) /\ UNCHANGED rest

SpecTick == Init /\ [][NextTick]_vars

\* the streams applied to each symbol's tick since it was last subscribed and
\* the channel last connected, recorded beside the handler that ran
Freshened ==
    LET s == pushed'.symbol IN
    fresh' = CASE pushed'.ch = "subscribe" -> With(fresh, s, {})
               [] pushed'.ch = "on_connected" -> [x \in DOMAIN fresh |-> {}]
               [] pushed'.ch = "depth" /\ {"bids", "asks"} \subseteq pushed'.keys ->
                     [fresh EXCEPT ![s] = @ \cup {"depth"}]
               [] pushed'.ch = "detail" -> [fresh EXCEPT ![s] = @ \cup {"detail"}]
               [] OTHER -> fresh

\* the market channel across reconnects
NextReconnect ==
    LET rest == <<idVars, orderVars, cancelVars, inflight, queryVars, tradeVars, historyVars, calls, timerVars, pushLog>> IN
    \/ \E symbol \in Codes : Subscribe(symbol) /\ Freshened /\ UNCHANGED rest
    \/ OnConnected /\ Freshened /\ UNCHANGED rest
    \/ \E symbol \in Codes, tick_data \in DepthTicks :
          OnMarketDepth(symbol, tick_data) /\ Freshened /\ UNCHANGED rest
    \/ \E symbol \in Codes, tick_data \in DetailTicks :
          OnMarketDetail(symbol, tick_data) /\ Freshened /\ UNCHANGED rest

SpecReconnect == Init /\ [][NextReconnect]_vars

\* the trade channel: connects and the packets of the login exchange
NextTrade ==
    LET rest == <<idVars, orderVars, cancelVars, inflight, queryVars, tickVars, historyVars, calls, timerVars, fresh, pushLog>> IN
    \/ TradeOnConnected /\ UNCHANGED rest
    \/ \E p \in ControlPackets : OnPacket(p) /\ UNCHANGED rest
    \/ \E p \in MixedPackets : OnPacket(p) /\ UNCHANGED rest

SpecTrade == Init /\ [][NextTrade]_vars

\* the trade channel once connected: the pushes
NextPush ==
    LET rest == <<idVars, orderVars, cancelVars, inflight, queryVars, tickVars, historyVars, calls, timerVars, fresh, pushLog>> IN
    \/ TradeOnConnected /\ UNCHANGED rest
    \/ \E p \in OrderPushes : OnPacket(p) /\ UNCHANGED rest
    \/ \E p \in ControlPackets : Op(p) \in {"notify", "sub"} /\ OnPacket(p) /\ UNCHANGED rest

SpecPush == Init /\ [][NextPush]_vars

\* one call of query_history
NextHistory ==
    LET rest == <<idVars, orderVars, cancelVars, inflight, queryVars, tickVars, tradeVars, calls, timerVars, fresh, pushLog>> IN
    \/ \E req_start \in Starts : QueryHistory(req_start) /\ UNCHANGED rest
    \/ \E resp \in Responses : HistoryPage(resp) /\ UNCHANGED rest

SpecHistory == Init /\ [][NextHistory]_vars

\* calls of create_signature
NextSign ==
    \E get_params \in GetParams, now \in UtcNow :
        CreateSignature(get_params, now)
            /\ UNCHANGED <<idVars, orderVars, cancelVars, inflight, queryVars,
                           tickVars, tradeVars, historyVars, timerVars, fresh, pushLog>>

SpecSign == Init /\ [][NextSign]_vars

\* the gateway's connects and the timer events
NextTimer ==
    LET rest == <<orderVars, cancelVars, queryVars, tickVars, tradeVars, historyVars, calls, fresh, pushLog>> IN
    \/ GatewayConnect /\ UNCHANGED rest
    \/ ProcessTimerEvent /\ UNCHANGED rest

SpecTimer == Init /\ [][NextTimer]_vars

\* send_order, the answers to its request and the pushes for its order
NextChannels ==
    LET rest == <<inflight, cancelVars, queryVars, tickVars, fresh, tradeVars, historyVars,
                  calls, timerVars>>
    IN \/ SendOrderAddRequest /\ UNCHANGED <<rest, pushLog>>
       \/ SendOrderOnOrder /\ UNCHANGED <<rest, pushLog>>
       \/ \E r \in DOMAIN requests, data \in Bodies(0) :
             /\ CheckError(data) => MayRefuse(r)
             /\ OnSendOrder(r, data)
             /\ UNCHANGED <<rest, pushLog>>
       \/ \E r \in DOMAIN requests : OnSendOrderFailed(r) /\ UNCHANGED <<rest, pushLog>>
       \/ \E r \in DOMAIN requests, ce \in BOOLEAN :
             OnSendOrderError(r, ce) /\ UNCHANGED <<rest, pushLog>>
       \/ \E i \in DOMAIN orders, status \in 3..7 :
             MayPush(i) /\ OnOrderPush(i, status) /\ UNCHANGED rest

SpecChannels == InitSending /\ [][NextChannels]_vars

--------------------------------------------------------------------------
(* Claims *)

\* the ids of one connection: made from lock acquisition to return with no
\* connect() in between
InConnection(e, g) == e.from = g /\ e.to = g

EpochOf(g) == IF g = 0 THEN <<0>> ELSE connects[g]

HasPrefix(s, p) == Len(s) >= Len(p) /\ SubSeq(s, 1, Len(p)) = p

CounterPart(s, p) == NumOf(SubSeq(s, Len(p) + 1, Len(s)))

\* C1: the ids returned by calls of one connection are pairwise distinct, all
\* start with that connection's epoch, and their counter parts increase
\* strictly in the order in which the calls took the counter lock.
C1_DistinctIncreasingIds ==
    \A g \in 0..Len(connects) : \A i, j \in DOMAIN idLog :
        (InConnection(idLog[i], g) /\ InConnection(idLog[j], g)
            /\ idLog[i].acq < idLog[j].acq)
        => /\ idLog[i].id # idLog[j].id
           /\ HasPrefix(idLog[i].id, EpochOf(g))
           /\ HasPrefix(idLog[j].id, EpochOf(g))
           /\ CounterPart(idLog[i].id, EpochOf(g)) < CounterPart(idLog[j].id, EpochOf(g))

\* two threads of one connection have each returned an id
C1_Witness ==
    \E i, j \in DOMAIN idLog :
        /\ idLog[i].by # idLog[j].by
        /\ InConnection(idLog[i], 1) /\ InConnection(idLog[j], 1)

\* C2: an id made after a later connect() differs from every id made before it.
C2_NoCollisionAcrossReconnect ==
    \A i, j \in DOMAIN idLog :
        idLog[i].to < idLog[j].from => idLog[i].id # idLog[j].id

\* an id made after the first connect and one made after a reconnect that set
\* the same epoch (a reconnect within the same second)
C2_Witness ==
    \E i, j \in DOMAIN idLog :
        /\ idLog[i].to = 1 /\ idLog[j].from = 2
        /\ connects[1] = connects[2]

RequestsOf(i) == {r \in DOMAIN requests : i \in Range(requests[r].extra)}

\* C3: for an order placed by send_order, the first on_order call carries the
\* pending status (so no rejected emission precedes it), and the POST is not
\* performed before that pending emission.
C3_PendingEmittedBeforePost ==
    \A r \in DOMAIN requests :
        requests[r].path = "swap_order" =>
            LET es == emits[requests[r].extra[1]]
            IN /\ es # <<>> => es[1] = "SUBMITTING"
               /\ requests[r].state = "done" => es # <<>>

\* C4: an order of send_order whose call ended in on_failed (non-2xx) or
\* on_error (exception) is rejected and has been emitted as rejected, and
\* no order is ever carried by a second request.
C4_FailureRejectsWithoutRetry ==
    /\ \A r \in DOMAIN requests :
          (requests[r].path = "swap_order" /\ requests[r].state = "done"
              /\ requests[r].via \in {"on_failed", "on_error"})
          => LET i == requests[r].extra[1]
             IN /\ orders[i].status = "REJECTED"
                /\ "REJECTED" \in Range(emits[i])
    /\ \A i \in DOMAIN orders : Cardinality(RequestsOf(i)) <= 1

\* a send_order call has returned and its request ended in a non-2xx status,
\* another one in an exception
C4_Witness ==
    /\ sending = {}
    /\ \E r, q \in DOMAIN requests :
          /\ requests[r].path = "swap_order" /\ requests[r].via = "on_failed"
          /\ requests[q].path = "swap_order" /\ requests[q].via = "on_error"

\* C5: after a response whose status is "error" to an order-placement request
\* (single or batch), every order of the request is rejected and has been
\* emitted as rejected.
C5_ErrorBodyRejectsEveryOrder ==
    \A r \in DOMAIN requests :
        (requests[r].state = "done" /\ requests[r].via = "callback"
            /\ requests[r].data.status = "error")
        => \A i \in Range(requests[r].extra) :
              /\ orders[i].status = "REJECTED"
              /\ "REJECTED" \in Range(emits[i])

\* C6: after on_send_orders has handled a response, exactly the orders at the
\* indices of its failure list are rejected, each emitted as rejected after
\* its pending emission; every other order of the batch is still pending and
\* was emitted once, as pending.
C6_OnlyListedOrdersRejected ==
    \A r \in DOMAIN requests :
        (requests[r].path = "swap_batchorder" /\ requests[r].state = "done"
            /\ requests[r].via = "callback")
        => \A k \in DOMAIN requests[r].extra :
              LET i == requests[r].extra[k]
                  n == Occurrences(requests[r].data.errors, k - 1)
              IN IF n > 0
                 THEN /\ orders[i].status = "REJECTED"
                      /\ emits[i] = <<"SUBMITTING">> \o [x \in 1..n |-> "REJECTED"]
                 ELSE /\ orders[i].status = "SUBMITTING"
                      /\ emits[i] = <<"SUBMITTING">>

\* a batch of three answered with a failure list naming index 1 only
C6_Witness ==
    \E r \in DOMAIN requests :
        /\ requests[r].path = "swap_batchorder" /\ requests[r].via = "callback"
        /\ Len(requests[r].extra) = 3
        /\ requests[r].data.errors = <<1>>
        /\ orders[requests[r].extra[1]].status = "SUBMITTING"
        /\ orders[requests[r].extra[2]].status = "REJECTED"
        /\ orders[requests[r].extra[3]].status = "SUBMITTING"

\* the number a digit string stands for, compared with 1000000
Above1000000(s) ==
    LET v == IntParse(s) IN IF Len(v) > 9 THEN TRUE ELSE NumOf(v) > 1000000

\* C7: cancel_order sends an id above 1000000 as client_order_id and any
\* other id as order_id, with exactly one of the two fields in the request;
\* 999999 and 1000000 go as order_id, 1000001 as client_order_id.
C7_CancelRouting ==
    \A c \in DOMAIN cancels :
        LET d == cancels[c].data
            id == cancels[c].orderid
        IN /\ IF Above1000000(id)
              THEN /\ DOMAIN d = {"contract_code", "client_order_id"}
                   /\ d.client_order_id = IntParse(id)
              ELSE /\ DOMAIN d = {"contract_code", "order_id"}
                   /\ d.order_id = IntParse(id)
           /\ id \in {<<9,9,9,9,9,9>>, <<1,0,0,0,0,0,0>>} => "order_id" \in DOMAIN d
           /\ id = <<1,0,0,0,0,0,1>> => "client_order_id" \in DOMAIN d

\* the three boundary ids have been cancelled
C7_Witness ==
    /\ Len(cancels) = 3
    /\ cancels[1].orderid = <<9,9,9,9,9,9>>
    /\ cancels[2].orderid = <<1,0,0,0,0,0,0>>
    /\ cancels[3].orderid = <<1,0,0,0,0,0,1>>

\* C8: after a successful position response has been handled, every cached
\* position absent from it is flat (volume, frozen, price and pnl are 0),
\* every position it reports carries its values, each cached position was
\* handed to on_position exactly once and nothing else was emitted; no key
\* ever leaves the cache.
C8_PositionCacheReconciled ==
    /\ posEver \subseteq DOMAIN positions
    /\ (call.handler = "on_query_position" /\ call.status # "error") =>
          /\ DOMAIN call.data \subseteq DOMAIN positions
          /\ \A k \in DOMAIN positions :
                /\ k \notin DOMAIN call.data =>
                      /\ positions[k].volume = 0 /\ positions[k].frozen = 0
                      /\ positions[k].price = 0 /\ positions[k].pnl = 0
                /\ k \in DOMAIN call.data =>
                      /\ positions[k].volume = call.data[k].volume
                      /\ positions[k].frozen = call.data[k].frozen
                      /\ positions[k].price = call.data[k].cost_hold
                      /\ positions[k].pnl = call.data[k].profit
                /\ positions[k].symbol = k[1]
                /\ CopiesIn(Emit("position", positions[k]), out) = 1
          /\ BagCardinality(out) = Cardinality(DOMAIN positions)

\* a response that reports one cached position and omits two others
C8_Witness ==
    /\ call.handler = "on_query_position" /\ call.status = "ok"
    /\ Cardinality(DOMAIN call.data) = 1
    /\ Cardinality(DOMAIN positions) = 3

QueryHandlers ==
    {"on_query_account", "on_query_position", "on_query_contract", "on_query_order"}

\* C9: a query callback given a response whose status is "error" logs once,
\* emits nothing, leaves the position cache, the contract codes and the codes
\* still to query unchanged, and issues no open-order query.
C9_ErrorResponseIsNoOp ==
    [][(call'.handler \in QueryHandlers /\ call'.status = "error") =>
          /\ out' = SetToBag({Log})
          /\ positions' = positions
          /\ contract_codes' = contract_codes
          /\ order_codes' = order_codes
          /\ \A c \in Codes :
                CopiesIn([path |-> "swap_openorders", extra |-> c], inflight')
                    <= CopiesIn([path |-> "swap_openorders", extra |-> c], inflight)
      ]_vars

\* an error response to an open-order query arrived while codes were still
\* to be queried and positions were cached
C9_Witness ==
    /\ call.handler = "on_query_order" /\ call.status = "error"
    /\ order_codes # {}
    /\ positions # <<>>

LevelSet(tick) ==
    \E n \in 1..DEPTH_LEVELS : tick.bid_price[n] # 0 \/ tick.ask_price[n] # 0

\* C10: every tick handed to on_tick has a non-zero last price, set by an
\* earlier detail update, and at least one depth level, set by an earlier
\* depth update.
C10_EmittedTickIsReady ==
    \A k \in DOMAIN tickOut :
        /\ tickOut[k].last_price # 0
        /\ "detail" \in fed[tickOut[k].symbol]
        /\ LevelSet(tickOut[k])
        /\ "depth" \in fed[tickOut[k].symbol]

\* C11 as stated: once the tick has a last price and a depth level, every
\* depth frame and every detail frame of the symbol emits exactly one tick;
\* a depth frame with no last price and a detail frame with no depth level
\* emit nothing.
C11_EveryFrameEmitsOnceReady ==
    [][pushed'.ch \in {"depth", "detail"} =>
        LET tick == ticks[pushed'.symbol] IN
        /\ (tick.last_price # 0 /\ LevelSet(tick)) => Len(tickOut') = 1
        /\ (pushed'.ch = "depth" /\ tick.last_price = 0) => tickOut' = <<>>
        /\ (pushed'.ch = "detail" /\ ~LevelSet(tick)) => tickOut' = <<>>]_vars

\* C11 (amended): once the tick has a last price and a best bid, every
\* depth frame carrying both "bids" and "asks" and every detail frame of the
\* symbol emits exactly one tick, the tick as the frame left it; a depth
\* frame lacking either list emits nothing, a depth frame with no last price
\* emits nothing, and a detail frame with no best bid emits nothing.
C11_FrameEmitsOnceBidAndLastPrice ==
    [][pushed'.ch \in {"depth", "detail"} =>
        LET s == pushed'.symbol IN
        /\ pushed'.ch = "depth" =>
              tickOut' = IF ticks[s].last_price # 0 /\ {"bids", "asks"} \subseteq pushed'.keys
                         THEN <<ticks'[s]>> ELSE <<>>
        /\ pushed'.ch = "detail" =>
              tickOut' = IF ticks[s].bid_price[1] # 0 THEN <<ticks'[s]>> ELSE <<>>]_vars

C11_Witness ==
    \E s \in DOMAIN ticks :
        /\ ticks[s].last_price # 0
        /\ ticks[s].bid_price[1] # 0
        /\ tickOut = <<ticks[s]>>
        /\ pushed.symbol = s
        /\ fed[s] = {"depth", "detail"}

\* C12: every subscribe(req) of the market channel records the request in
\* the registry, seeds an empty tick for the symbol and sends exactly two
\* frames, the depth.step0 and the detail subscription of the symbol.
C12_SubscribeCompletes ==
    [][pushed'.ch = "subscribe" =>
        LET s == pushed'.symbol IN
        /\ s \in Range(subscribed')
        /\ ticks'[s] = TickData(s)
        /\ Len(sent') = 2
        /\ Range(sent') = {DepthSub(s), DetailSub(s)}]_vars

\* C13: the registry of the market channel only grows, and every
\* on_connected sends the depth and the detail subscription frame of every
\* symbol recorded in the registry.
C13_ReconnectReplaysRegistry ==
    [][/\ Range(subscribed) \subseteq Range(subscribed')
       /\ pushed'.ch = "on_connected" =>
             \A s \in Range(subscribed) : {DepthSub(s), DetailSub(s)} \subseteq Range(sent')]_vars

IsAck(e) == e.ev = "received" /\ Op(e.packet) = "auth"

AuthsSent(i, j) == {k \in i..j : trade_log[k] = Sent(AuthFrame)}

\* the position after the last event of the connection that starts at i
ConnectionEnd(i) ==
    LET later == {k \in DOMAIN trade_log : k > i /\ trade_log[k] = Connected}
    IN IF later = {} THEN Len(trade_log)
       ELSE (CHOOSE k \in later : \A m \in later : k <= m) - 1

\* C14: on the trade channel every connect sends exactly one auth frame; a
\* sub frame is sent only after an auth acknowledgement of the same
\* connection, and every acknowledgement is followed by the sub frame.
C14_SubscribeOnlyAfterAuth ==
    \A i \in DOMAIN trade_log :
        /\ trade_log[i] = Connected =>
              /\ Cardinality(AuthsSent(i, ConnectionEnd(i))) = 1
              /\ trade_log[i + 1] = Sent(AuthFrame)
        /\ trade_log[i] = Sent(SubFrame) =>
              \E k \in 1..(i - 1) :
                  /\ IsAck(trade_log[k])
                  /\ \A m \in k..i : trade_log[m] # Connected
        /\ IsAck(trade_log[i]) => i < Len(trade_log) /\ trade_log[i + 1] = Sent(SubFrame)

\* a reconnect after a first login, acknowledged and subscribed again
C14_Witness ==
    \E i, j \in DOMAIN trade_log :
        /\ i < j
        /\ trade_log[i] = Sent(SubFrame)
        /\ trade_log[j] = Connected
        /\ trade_log[Len(trade_log)] = Sent(SubFrame)
        /\ \E k \in j..Len(trade_log) : IsAck(trade_log[k])

IsOrderPush(p) == Op(p) = "notify" /\ OrdersIn(p.topic)

\* C15: an order push emits exactly one order update, first, then one trade
\* per entry of its trade list, in list order, each with the symbol,
\* direction, offset and order id of the order update; the order id is the
\* client's id if present, else the exchange's.  Any other frame emits
\* nothing.
C15_OrderBeforeItsTrades ==
    IF IsOrderPush(packet)
    THEN /\ Len(tradeOut) = 1 + Len(packet.trade)
         /\ tradeOut[1].type = "order"
         /\ tradeOut[1].symbol = packet.contract_code
         /\ tradeOut[1].orderid = IF packet.client_order_id # 0
                                  THEN packet.client_order_id ELSE packet.order_id
         /\ \A k \in DOMAIN packet.trade :
               /\ tradeOut[k + 1].type = "trade"
               /\ tradeOut[k + 1].tradeid = packet.trade[k].id
               /\ tradeOut[k + 1].symbol = tradeOut[1].symbol
               /\ tradeOut[k + 1].direction = tradeOut[1].direction
               /\ tradeOut[k + 1].offset = tradeOut[1].offset
               /\ tradeOut[k + 1].orderid = tradeOut[1].orderid
    ELSE tradeOut = <<>>

C15_Witness ==
    /\ IsOrderPush(packet)
    /\ packet.client_order_id = 0
    /\ Len(packet.trade) = 2
    /\ packet.trade[1].id # packet.trade[2].id
    /\ Len(tradeOut) = 3

\* C16: over any sequence of order pushes, repeats and reconnects included,
\* on_trade is called at most once per exchange trade id.
C16_TradeEmittedOnce ==
    \A id \in BagToSet(tradeids) : CopiesIn(id, tradeids) <= 1

RECURSIVE Bars(_)
\* the number of bars of a list of runs
Bars(runs) == IF runs = <<>> THEN 0 ELSE Head(runs).n + Bars(Tail(runs))

IsRows(resp) == resp.status = 200 /\ resp.body = "rows"

\* C17: answered with k pages of exactly 1999 bars the call goes on asking;
\* answered then with a page of m bars, 0 < m < 1999, it returns, having made
\* k + 1 requests, with the k * 1999 + m bars in the order received.
C17_PaginationCount ==
    LET k == Cardinality({i \in DOMAIN resps : IsRows(resps[i]) /\ resps[i].n = COUNT})
    IN /\ (k = Len(resps) /\ k < MaxPages) => hpc # "returned"
       /\ (/\ k = Len(resps) - 1
           /\ IsRows(resps[Len(resps)])
           /\ resps[Len(resps)].n < COUNT) =>
              /\ hpc = "returned"
              /\ Bars(history) = k * COUNT + resps[Len(resps)].n
              /\ Len(history) = k + 1
              /\ \A i \in DOMAIN history : history[i].n = resps[i].n

C17_Witness ==
    /\ hpc = "returned"
    /\ Len(resps) = 4
    /\ \A i \in 1..3 : resps[i].n = COUNT
    /\ resps[4].n = 500
    /\ Bars(history) = 3 * COUNT + 500

\* a further request follows a response
Continues(resp) == resp.status \div 100 = 2 /\ resp.body = "rows" /\ resp.n >= COUNT

\* C18: the call asks for a further page if and only if the last response
\* was 2xx with a non-empty payload of at least 1999 bars; the first response
\* that is not ends the call, with no retry, returning every bar received.
C18_StopsAtFirstShortPage ==
    resps # <<>> =>
        /\ hpc = "returned" <=> ~Continues(resps[Len(resps)])
        /\ \A i \in 1..(Len(resps) - 1) : Continues(resps[i])
        /\ LET rows == {i \in DOMAIN resps : IsRows(resps[i])}
           IN /\ Len(history) = Cardinality(rows)
              /\ \A i \in rows : history[i].n = resps[i].n

C18_Witness ==
    /\ hpc = "returned"
    /\ Len(resps) = 2
    /\ resps[1].n = COUNT + 1
    /\ resps[2].status = 500
    /\ Bars(history) = COUNT + 1

SameArguments(a, b) == a.given = b.given

\* C19: two calls with the same arguments and the same timestamp return the
\* same mapping, Signature included; two calls with the same arguments at
\* different times return mappings that differ in no field but Timestamp and
\* Signature.  The mapping passed in is left as it was.
C19_SignatureDeterminism ==
    \A i, j \in DOMAIN calls :
        /\ calls[i].did.get_params = calls[i].given
        /\ SameArguments(calls[i], calls[j]) =>
              /\ calls[i].now = calls[j].now => calls[i].did.params = calls[j].did.params
              /\ DOMAIN calls[i].did.params = DOMAIN calls[j].did.params
              /\ \A n \in DOMAIN calls[i].did.params \ {Timestamp, Signature} :
                    calls[i].did.params[n] = calls[j].did.params[n]

\* the same arguments signed at two different readings of the clock
C19_Witness ==
    \E i, j \in DOMAIN calls :
        /\ SameArguments(calls[i], calls[j])
        /\ Truthy(calls[i].given)
        /\ calls[i].now # calls[j].now
        /\ calls[i].did.params[Signature] # calls[j].did.params[Signature]

Names(l) == [k \in DOMAIN l |-> l[k][1]]

Supplied(get_params) == {get_params.items[k][1] : k \in DOMAIN get_params.items}

\* C20: the list encoded into the payload holds the four mandatory fields
\* and every supplied parameter, each once, in lexicographic order of name;
\* with no parameters it is the four mandatory fields in that order.
C20_ParametersInLexicographicOrder ==
    \A i \in DOMAIN calls :
        LET l == calls[i].did.sorted_params
            names == Names(l)
        IN /\ Range(names) = {AccessKeyId, SignatureMethod, SignatureVersion, Timestamp}
                                \cup Supplied(calls[i].given)
           /\ \A j, k \in DOMAIN names : j < k => StrLess(names[j], names[k])
           /\ Supplied(calls[i].given) = {} =>
                 names = <<AccessKeyId, SignatureMethod, SignatureVersion, Timestamp>>

\* a lower-case parameter passed before an upper-case one: sorted around the
\* mandatory ones
C20_Witness ==
    \E i \in DOMAIN calls :
        /\ Len(calls[i].did.sorted_params) = 6
        /\ calls[i].given.items[1][1] = Names(calls[i].did.sorted_params)[6]
        /\ calls[i].given.items[2][1] = Names(calls[i].did.sorted_params)[2]

\* C21: on_packet takes exactly one branch, by the precedence ping field,
\* op = ping, err-msg field, op = auth, data handler.  A ping sends its one
\* matching pong and nothing else happens; a frame with err-msg never logs in
\* and never reaches the data handler; "invalid pong" is not logged, any
\* other err-msg is logged once.
C21_OnePacketOneBranch ==
    packet # NoPacket =>
        /\ ran.branch \in {"pong", "op_pong", "on_error_msg", "on_login", "on_data"}
        /\ Has(packet, "ping") =>
              /\ ran.branch = "pong"
              /\ ran.sent = <<[pong |-> packet.ping]>>
              /\ ran.wrote = <<>> /\ tradeOut = <<>>
        /\ (~Has(packet, "ping") /\ Op(packet) = "ping") =>
              /\ ran.branch = "op_pong"
              /\ ran.sent = <<[op |-> "pong", ts |-> packet.ts]>>
              /\ ran.wrote = <<>> /\ tradeOut = <<>>
        /\ (~Has(packet, "ping") /\ Op(packet) # "ping" /\ Has(packet, "err_msg")) =>
              /\ ran.branch = "on_error_msg"
              /\ ran.sent = <<>> /\ tradeOut = <<>>
              /\ ran.wrote = IF packet.err_msg = "invalid pong" THEN <<>> ELSE <<packet.err_msg>>
        /\ Has(packet, "err_msg") => ran.branch \notin {"on_login", "on_data"}
        /\ ran.branch = "on_login" => Op(packet) = "auth"
        /\ (ran.branch = "on_data" /\ Has(packet, "op")) => packet.op \notin {"ping", "auth"}

\* a failed auth answer: logged, no login
C21_Witness ==
    /\ Op(packet) = "auth"
    /\ Has(packet, "err_msg")
    /\ ran = [branch |-> "on_error_msg", wrote |-> <<"invalid signature">>, sent |-> <<>>]

\* the open-order queries queued and not yet answered
Outstanding ==
    BagCardinality([r \in {q \in BagToSet(inflight) : q.path = "swap_openorders"} |->
                        CopiesIn(r, inflight)])

\* C22: after a contract response the open-order queries run as one chain:
\* at most one is outstanding at any time, and the chain ends, with none
\* outstanding, only when every instrument has been queried; whatever the
\* open-order responses are, and also when a second contract response
\* arrives.
C22_OpenOrderChain ==
    /\ Outstanding <= 1
    /\ (contract_codes # {} /\ Outstanding = 0) => order_codes = {}

\* C23: after connect the first two timer events issue no query, and the
\* account and position queries are issued, account first, on every third
\* event: on the 3rd, 6th, ... and on no other.
C23_PollsEveryThirdTick ==
    \A k \in DOMAIN polled :
        polled[k] = IF k % 3 = 0 THEN <<"swap_account_info", "swap_position_info">> ELSE <<>>

\* C27: the bars query_history returns have strictly increasing times, none
\* twice, when each response holds the bars of the window [from, to] in
\* ascending order: the first bar of a page is later than the last bar of the
\* page before it.
C27_BarsStrictlyIncreasing ==
    \A i \in 1..(Len(history) - 1) :
        history[i + 1].from > history[i].from + history[i].n - 1

\* C26: subscribe and the replay of on_connected replace the tick of every
\* symbol they cover by an empty one, so every tick emitted carries only what
\* frames received since the channel last connected wrote: both a depth and a
\* detail frame of the symbol were applied since then.
C26_NoTickAcrossReconnect ==
    [][/\ pushed'.ch = "subscribe" => ticks'[pushed'.symbol] = TickData(pushed'.symbol)
       /\ pushed'.ch = "on_connected" => \A s \in Range(subscribed) : ticks'[s] = TickData(s)
       /\ \A k \in DOMAIN tickOut' :
             {"depth", "detail"} \subseteq fresh'[tickOut'[k].symbol]]_vars

\* the ids new_local_orderid returns, before connect and after it
LocalOrderids ==
    { LocalOrderid(epoch, INITIAL_ORDER_COUNT + k) :
        epoch \in {<<0>>} \cup {IntParse(now) : now \in Clock}, k \in 1..MaxIds }

\* the fields an order id handed to the caller came from
Origins(orderid) ==
    (IF orderid \in LocalOrderids THEN {"client_order_id"} ELSE {})
        \cup { IF p.client_order_id # 0 THEN "client_order_id" ELSE "order_id" :
                 p \in {q \in OrderPushes : Digits(OrderUpdate(q).orderid) = orderid} }

\* C25: cancel_order sends every id the adapter handed out under the field
\* it came from: an id made by new_local_orderid, before connect or after,
\* and an id taken from the client_order_id of a push as client_order_id, an
\* id taken from the order_id of a push as order_id.
C25_CancelRoundTrip ==
    \A c \in DOMAIN cancels :
        \A field \in Origins(cancels[c].orderid) : field \in DOMAIN cancels[c].data

\* C24: whatever the interleaving of the callbacks of an order's REST request
\* with the pushes of the trade channel, the caller is never given both a
\* REJECTED state of the order by the REST path and a state the exchange
\* reports for it (not traded, part traded, all traded, cancelled) by the push
\* path.
C24_NeverRejectedAndLive ==
    \A i \in DOMAIN orders :
        ~ /\ "REJECTED" \in Range(emits[i])
          /\ \E k \in DOMAIN pushLog :
                /\ pushLog[k].orderid = IntParse(orders[i].orderid)
                /\ pushLog[k].status \in {"NOTTRADED", "PARTTRADED", "ALLTRADED", "CANCELLED"}

==========================================================================
